---- MODULE Spec2Model ----
(***************************************************************************)
(* Model of the AST based duplicate-function detector (ast-code-dup).      *)
(*                                                                         *)
(* The babel variant of the program (parseFile, extractFunctions,          *)
(* standardizeIdentifiers, normalizeFunction, hashFunctionCode,            *)
(* findDuplicateFunctions, generateReport, extractFunctionCode,            *)
(* scanProject) is modelled as a state machine.  Source text, canonical    *)
(* forms and digests are TLA+ strings; the syntax tree of a file is a      *)
(* table of function nodes whose Identifier nodes live in a heap of names, *)
(* because standardizeIdentifiers renames Identifier nodes in place.       *)
(***************************************************************************)
EXTENDS Integers, Sequences, FiniteSets, TLC

VARIABLES
    pc,             \* position of the running call
    files,          \* the directory listing scanDir walks (keys of Catalogue)
    minOccurrences, \* third argument of scanProject
    fileIdx,        \* files.forEach position in scanDir
    allFunctions,   \* scanProject's allFunctions: sequence of {node, filePath}
    names,          \* heap: names[i][n] = current name of Identifier node n of file i
    unitIdx,        \* functions.forEach position in findDuplicateFunctions
    hashes,         \* findDuplicateFunctions' hashes object
    duplicates,     \* findDuplicateFunctions' duplicates object, in key insertion order
    normalized,     \* history: normalizedCode and hash computed for each unit so far
    report,         \* the text blocks handed to fs.writeFileSync, or "none"
    arg,            \* argument of a call of a pure function
    ret             \* its result

vars == <<pc, files, minOccurrences, fileIdx, allFunctions, names, unitIdx,
          hashes, duplicates, normalized, report, arg, ret>>

-----------------------------------------------------------------------------
(* Bounds *)

MaxFiles == 3            \* entries in the scanned directory
MaxMinOccurrences == 4   \* largest minOccurrences argument tried
MaxSpanLines == 3        \* most lines a span covers in the extraction runs

-----------------------------------------------------------------------------
(* JavaScript string helpers *)

Min(a, b) == IF a < b THEN a ELSE b
Max(a, b) == IF a < b THEN b ELSE a

\* String.prototype.substring(start, end): both indices are clamped to
\* [0, length] and swapped when start > end.
substring(s, start, end) ==
    LET len == Len(s)
        a == Min(Max(start, 0), len)
        b == Min(Max(end, 0), len)
    IN  SubSeq(s, Min(a, b) + 1, Max(a, b))

\* String.prototype.substring(start): to the end of the string.
substringFrom(s, start) == substring(s, start, Len(s))

\* String.prototype.split('\n'): the pieces between consecutive newlines.
split(s) ==
    LET newlines == {i \in 1..Len(s) : SubSeq(s, i, i) = "\n"}
        nth(k) == CHOOSE i \in newlines :
                     Cardinality({j \in newlines : j < i}) = k - 1
        from(k) == IF k = 1 THEN 1 ELSE nth(k - 1) + 1
        to(k) == IF k = Cardinality(newlines) + 1 THEN Len(s) ELSE nth(k) - 1
    IN  [k \in 1..(Cardinality(newlines) + 1) |-> SubSeq(s, from(k), to(k))]

\* Array.prototype.join('\n')
RECURSIVE join(_)
join(ls) ==
    IF Len(ls) = 0 THEN ""
    ELSE IF Len(ls) = 1 THEN ls[1]
    ELSE ls[1] \o "\n" \o join(Tail(ls))

\* code.replace(/\s+/g, '')
IsWhitespace(c) == c \in {" ", "\n", "\t", "\r"}

\* The characters lo..hi of s without the whitespace (halving keeps the
\* evaluation shallow).
RECURSIVE stripBetween(_, _, _)
stripBetween(s, lo, hi) ==
    IF lo > hi THEN ""
    ELSE IF lo = hi
         THEN (IF IsWhitespace(SubSeq(s, lo, lo)) THEN "" ELSE SubSeq(s, lo, lo))
         ELSE LET mid == (lo + hi) \div 2
              IN  stripBetween(s, lo, mid) \o stripBetween(s, mid + 1, hi)

stripWhitespace(s) == stripBetween(s, 1, Len(s))

-----------------------------------------------------------------------------
(* Syntax trees as the parser returns them *)

\* A source location: 1-indexed line, 0-indexed column.
Pos(l, c) == [line |-> l, column |-> c]
Loc(sl, sc, el, ec) == [start |-> Pos(sl, sc), end |-> Pos(el, ec)]

\* Children of a function body in traversal order: a token that is not an
\* Identifier (keyword, operator, literal, punctuation), an Identifier node
\* (index into the file's heap of names) or a nested function node.
Tok(s) == [k |-> "tok", v |-> s]
Id(n) == [k |-> "id", v |-> n]
Fn(f) == [k |-> "fn", v |-> f]
\* A ClassProperty whose value is the function node f.
Prop(f) == [k |-> "prop", v |-> f]

\* A function node: id is an Identifier node or 0 for null (for a
\* ClassMethod it is the key).
Func(type, id, async, params, body, loc) ==
    [type |-> type, id |-> id, async |-> async, params |-> params,
     body |-> body, loc |-> loc]

\* The directory entries and syntax trees the model runs on.  content is the
\* file's text, parses tells whether @babel/parser accepts it, names0 are the
\* names of its Identifier nodes as parsed, funcs its function nodes and top
\* the children of the Program node.
Catalogue(key) ==
    CASE key = "ab.js" ->
        [ext |-> ".js", parses |-> TRUE,
         content |-> "function add(a, b) {\n  return a + b;\n}\nfunction mul(c, d) {\n  return c * d;\n}",
         names0 |-> <<"add", "a", "b", "a", "b", "mul", "c", "d", "c", "d">>,
         funcs |-> <<
            Func("FunctionDeclaration", 1, FALSE, <<2, 3>>,
                 <<Tok("return "), Id(4), Tok(" + "), Id(5), Tok(";")>>,
                 Loc(1, 0, 3, 1)),
            Func("FunctionDeclaration", 6, FALSE, <<7, 8>>,
                 <<Tok("return "), Id(9), Tok(" * "), Id(10), Tok(";")>>,
                 Loc(4, 0, 6, 1)) >>,
         top |-> <<Fn(1), Fn(2)>>]
      [] key = "ba.js" ->
        [ext |-> ".js", parses |-> TRUE,
         content |-> "const times = function (x, y) { return x * y; };\nconst plus = function (u, v) {\n  return u + v;\n};",
         names0 |-> <<"times", "x", "y", "x", "y", "plus", "u", "v", "u", "v">>,
         funcs |-> <<
            Func("FunctionExpression", 0, FALSE, <<2, 3>>,
                 <<Tok("return "), Id(4), Tok(" * "), Id(5), Tok(";")>>,
                 Loc(1, 14, 1, 47)),
            Func("FunctionExpression", 0, FALSE, <<7, 8>>,
                 <<Tok("return "), Id(9), Tok(" + "), Id(10), Tok(";")>>,
                 Loc(2, 13, 4, 1)) >>,
         top |-> <<Tok("const "), Id(1), Tok(" = "), Fn(1), Tok(";"),
                   Tok("const "), Id(6), Tok(" = "), Fn(2), Tok(";")>>]
      [] key = "nested.ts" ->
        [ext |-> ".ts", parses |-> TRUE,
         content |-> "function outer(a, b) {\n  return function (b, a) { return b + a; };\n}\nfunction wrap(identifier_1, c) {\n  return function (c, identifier_1) { return c - identifier_1; };\n}",
         names0 |-> <<"outer", "a", "b", "b", "a", "b", "a",
                      "wrap", "identifier_1", "c", "c", "identifier_1", "c",
                      "identifier_1">>,
         funcs |-> <<
            Func("FunctionDeclaration", 1, FALSE, <<2, 3>>,
                 <<Tok("return "), Fn(2), Tok(";")>>,
                 Loc(1, 0, 3, 1)),
            Func("FunctionExpression", 0, FALSE, <<4, 5>>,
                 <<Tok("return "), Id(6), Tok(" + "), Id(7), Tok(";")>>,
                 Loc(2, 9, 2, 42)),
            Func("FunctionDeclaration", 8, FALSE, <<9, 10>>,
                 <<Tok("return "), Fn(4), Tok(";")>>,
                 Loc(4, 0, 6, 1)),
            Func("FunctionExpression", 0, FALSE, <<11, 12>>,
                 <<Tok("return "), Id(13), Tok(" - "), Id(14), Tok(";")>>,
                 Loc(5, 9, 5, 64)) >>,
         top |-> <<Fn(1), Fn(3)>>]
      [] key = "prop.js" ->
        [ext |-> ".js", parses |-> TRUE,
         content |-> "class K {\n  p = function (a, b) { return a + b; };\n}",
         names0 |-> <<"K", "p", "a", "b", "a", "b">>,
         funcs |-> <<
            Func("FunctionExpression", 0, FALSE, <<3, 4>>,
                 <<Tok("return "), Id(5), Tok(" + "), Id(6), Tok(";")>>,
                 Loc(2, 6, 2, 39)) >>,
         top |-> <<Tok("class "), Id(1), Tok("{"), Id(2), Tok(" = "), Prop(1),
                   Tok("}")>>]
      [] key = "klass.js" ->
        [ext |-> ".js", parses |-> TRUE,
         content |-> "class C {\n  m(a, b) { return a + b; }\n}",
         names0 |-> <<"C", "m", "a", "b", "a", "b">>,
         funcs |-> <<
            Func("ClassMethod", 2, FALSE, <<3, 4>>,
                 <<Tok("return "), Id(5), Tok(" + "), Id(6), Tok(";")>>,
                 Loc(2, 2, 2, 27)) >>,
         top |-> <<Tok("class "), Id(1), Tok("{"), Fn(1), Tok("}")>>]
      [] key = "bad.js" ->
        [ext |-> ".js", parses |-> FALSE,
         content |-> "function (a, b {\n",
         names0 |-> <<>>, funcs |-> <<>>, top |-> <<>>]
      [] key = "notes.md" ->
        [ext |-> ".md", parses |-> FALSE,
         content |-> "function add(a, b) {\n  return a + b;\n}",
         names0 |-> <<>>, funcs |-> <<>>, top |-> <<>>]
      [] key = "flat" ->
        \* function n1(n2, n3) { return n4 + n5; }
        [ext |-> ".js", parses |-> TRUE, content |-> "",
         names0 |-> <<"f", "a", "b", "a", "b">>,
         funcs |-> <<
            Func("FunctionDeclaration", 1, FALSE, <<2, 3>>,
                 <<Tok("return "), Id(4), Tok(" + "), Id(5), Tok(";")>>,
                 Loc(1, 0, 1, 0)) >>,
         top |-> <<Fn(1)>>]
      [] key = "inner" ->
        \* function n1(n2) { return function (n3) { return n4 + n5; }; }
        [ext |-> ".js", parses |-> TRUE, content |-> "",
         names0 |-> <<"f", "a", "b", "a", "b">>,
         funcs |-> <<
            Func("FunctionDeclaration", 1, FALSE, <<2>>,
                 <<Tok("return "), Fn(2), Tok(";")>>,
                 Loc(1, 0, 1, 0)),
            Func("FunctionExpression", 0, FALSE, <<3>>,
                 <<Tok("return "), Id(4), Tok(" + "), Id(5), Tok(";")>>,
                 Loc(1, 0, 1, 0)) >>,
         top |-> <<Fn(1)>>]

\* The entries a scanned directory is drawn from.
FileKeys == {"ab.js", "ba.js", "nested.ts", "prop.js", "klass.js", "bad.js",
             "notes.md"}

\* A function unit as extractFunctions pushes it: node is the index of the
\* function node in the tree of file number file of the listing, filePath
\* the path of that file.
Unit(file, path, node) == [file |-> file, filePath |-> path, node |-> node]

\* babel traverse visits nodes parent first, children in order; the visitor
\* keys of extractFunctions push a unit when they enter a node.
RECURSIVE collectItems(_, _)
RECURSIVE collectFunction(_, _)
collectFunction(ast, f) ==
    <<f>> \o collectItems(ast, ast.funcs[f].body)

collectItems(ast, items) ==
    IF items = <<>> THEN <<>>
    ELSE LET it == Head(items)
             here == CASE it.k = "fn" -> collectFunction(ast, it.v)
                       [] it.k = "prop" ->
                            (IF ast.funcs[it.v].type = "FunctionExpression"
                             THEN <<it.v>> ELSE <<>>)
                            \o collectFunction(ast, it.v)
                       [] OTHER -> <<>>
         IN  here \o collectItems(ast, Tail(items))

\* extractFunctions(ast, filePath)
extractFunctions(ast, file, path) ==
    LET nodes == collectItems(ast, ast.top)
    IN  [k \in 1..Len(nodes) |-> Unit(file, path, nodes[k])]

-----------------------------------------------------------------------------
(* Canonicalizer and hasher *)

\* The Identifier nodes under a function node in the order babel traverse
\* visits them: id, params, body; a nested function contributes its own id,
\* params and body in place.
RECURSIVE identifiersOfItems(_, _)
RECURSIVE identifiersOf(_, _)
identifiersOf(ast, fn) ==
    (IF fn.id # 0 THEN <<fn.id>> ELSE <<>>)
    \o fn.params
    \o identifiersOfItems(ast, fn.body)

identifiersOfItems(ast, items) ==
    IF items = <<>> THEN <<>>
    ELSE LET it == Head(items)
             here == CASE it.k = "id" -> <<it.v>>
                       [] it.k = "fn" -> identifiersOf(ast, ast.funcs[it.v])
                       [] OTHER -> <<>>
         IN  here \o identifiersOfItems(ast, Tail(items))

\* `identifier_${identifierCount}`
Label(identifierCount) == "identifier_" \o ToString(identifierCount)

\* The Identifier visitor of standardizeIdentifiers applied along order: nm
\* is the heap of names of the file, identifierMap and identifierCount are
\* the locals of the call.  Returns the heap after the traversal.
RECURSIVE visitIdentifiersKeepLabels(_, _, _, _, _)
RECURSIVE visitIdentifiers(_, _, _, _, _)
\* The visitor with a shortcut that leaves a name alone when it already has
\* the form of a label.
visitIdentifiersKeepLabels(nm, order, i, identifierMap, identifierCount) ==
    IF i > Len(order) THEN nm
    ELSE LET node == order[i]
             name == nm[node]
             labelled == Len(name) > 11 /\ SubSeq(name, 1, 11) = "identifier_"
             fresh == ~labelled /\ name \notin DOMAIN identifierMap
             map2 == IF fresh
                     THEN [s \in DOMAIN identifierMap \cup {name} |->
                             IF s = name THEN Label(identifierCount)
                             ELSE identifierMap[s]]
                     ELSE identifierMap
             count2 == IF fresh THEN identifierCount + 1 ELSE identifierCount
             written == IF labelled THEN name ELSE map2[name]
         IN  visitIdentifiersKeepLabels([nm EXCEPT ![node] = written], order,
                                        i + 1, map2, count2)

visitIdentifiers(nm, order, i, identifierMap, identifierCount) ==
    IF i > Len(order) THEN nm
    ELSE LET node == order[i]
             name == nm[node]
             fresh == name \notin DOMAIN identifierMap
             map2 == IF fresh
                     THEN [s \in DOMAIN identifierMap \cup {name} |->
                             IF s = name THEN Label(identifierCount)
                             ELSE identifierMap[s]]
                     ELSE identifierMap
             count2 == IF fresh THEN identifierCount + 1 ELSE identifierCount
         IN  visitIdentifiers([nm EXCEPT ![node] = map2[name]], order, i + 1,
                              map2, count2)

\* standardizeIdentifiers without the write to path.node.name.
standardizeIdentifiersNoWrite(nm, order) == nm

\* standardizeIdentifiers(ast): a fresh counter and map for every call.
standardizeIdentifiers(nm, order) ==
    visitIdentifiers(nm, order, 1, [s \in {} |-> ""], 0)

\* Array.prototype.join(', ') over the printed parameters.
RECURSIVE printParams(_, _)
printParams(nm, params) ==
    IF params = <<>> THEN ""
    ELSE IF Len(params) = 1 THEN nm[params[1]]
    ELSE nm[params[1]] \o ", " \o printParams(nm, Tail(params))

\* @babel/generator on a function node: keywords, the id when there is one,
\* the parameter list and the body, with the generator's own spacing.
RECURSIVE printItems(_, _, _)
RECURSIVE printFunction(_, _, _)
printFunction(ast, nm, fn) ==
    LET async == IF fn.async THEN "async " ELSE ""
        params == "(" \o printParams(nm, fn.params) \o ")"
        body == "{\n  " \o printItems(ast, nm, fn.body) \o "\n}"
    IN  CASE fn.type = "ArrowFunctionExpression" ->
                async \o params \o " => " \o body
          [] fn.type = "ClassMethod" ->
                async \o nm[fn.id] \o params \o " " \o body
          [] OTHER ->
                async \o "function " \o (IF fn.id # 0 THEN nm[fn.id] ELSE "")
                \o params \o " " \o body

printItems(ast, nm, items) ==
    IF items = <<>> THEN ""
    ELSE LET it == Head(items)
             here == CASE it.k = "id" -> nm[it.v]
                       [] it.k = "fn" -> printFunction(ast, nm, ast.funcs[it.v])
                       [] OTHER -> it.v
         IN  here \o printItems(ast, nm, Tail(items))

\* generate(t.file(t.program([t.expressionStatement(node)]))): a function
\* expression that starts a statement is parenthesised.
generate(ast, nm, node) ==
    IF node.type = "ArrowFunctionExpression"
    THEN printFunction(ast, nm, node) \o ";"
    ELSE "(" \o printFunction(ast, nm, node) \o ");"

\* normalizeFunction's type test: throws for any other node type.
normalizeThrows(funcNode) ==
    funcNode.type \notin {"FunctionDeclaration", "FunctionExpression",
                          "ArrowFunctionExpression"}

\* The node normalizeFunction wraps: t.functionExpression(null, params, body)
\* for a declaration (a new node sharing params and body with funcNode; id,
\* async and generator take the builder's defaults), funcNode itself for a
\* function expression or arrow function.
nodeToWrap(funcNode) ==
    IF funcNode.type = "FunctionDeclaration"
    THEN Func("FunctionExpression", 0, FALSE, funcNode.params, funcNode.body,
              funcNode.loc)
    ELSE funcNode

\* normalizeFunction(funcNode) for the node funcNode of tree ast with heap nm:
\* names is the heap after standardizeIdentifiers, code the returned string.
normalizeFunction(ast, nm, funcNode) ==
    LET wrapped == nodeToWrap(funcNode)
        renamed == standardizeIdentifiers(nm, identifiersOf(ast, wrapped))
    IN  [names |-> renamed,
         code |-> stripWhitespace(generate(ast, renamed, wrapped))]

\* hashFunctionCode(code): the SHA-256 hex digest, taken as collision free on
\* the strings of a run; a digest stands for the one string it was made of.
hashFunctionCode(code) == "sha256(" \o code \o ")"

-----------------------------------------------------------------------------
(* extractFunctionCode *)

\* extractFunctionCode(filePath, loc); content is what fs.readFileSync
\* returns for filePath.  lines is 0-indexed in the source, 1-indexed here.
extractFunctionCode(content, loc) ==
    LET lines == split(content)
        startLine == loc.start.line - 1
        endLine == loc.end.line - 1
        startColumn == loc.start.column - 1
        endColumn == loc.end.column
    IN  IF startLine = endLine
        THEN substring(lines[startLine + 1], startColumn, endColumn)
        ELSE join(<<substringFrom(lines[startLine + 1], startColumn)>>
                  \o [k \in 1..(endLine - startLine - 1) |-> lines[startLine + 1 + k]]
                  \o <<substring(lines[endLine + 1], 0, endColumn)>>)

-----------------------------------------------------------------------------
(* scanProject(directory, outputFilePath, minOccurrences) *)

\* All sequences over S of length 1..n.
SeqsUpTo(S, n) == UNION {[1..k -> S] : k \in 1..n}

\* path.join(dir, file): entry i of the listing is files[i] in the i-th
\* subdirectory of the scanned directory (scanDir's recursion flattened into
\* its visiting order).
pathOf(i, key) == "example/d" \o ToString(i) \o "/" \o key

treeOf(unit) == Catalogue(files[unit.file])
nodeOf(unit) == treeOf(unit).funcs[unit.node]

NoObject == [h \in {} |-> 0]

Init ==
    /\ files \in SeqsUpTo(FileKeys, MaxFiles)
    /\ minOccurrences \in 2..MaxMinOccurrences
    /\ pc = "scanDir"
    /\ fileIdx = 1
    /\ allFunctions = <<>>
    /\ names = [i \in 1..Len(files) |-> Catalogue(files[i]).names0]
    /\ unitIdx = 1
    /\ hashes = NoObject
    /\ duplicates = <<>>
    /\ normalized = <<>>
    /\ report = "none"
    /\ arg = "none"
    /\ ret = "none"

\* scanDir's forEach callback on an entry whose extension is not eligible.
SkipEntry ==
    /\ pc = "scanDir"
    /\ fileIdx <= Len(files)
    /\ Catalogue(files[fileIdx]).ext \notin {".js", ".ts"}
    /\ fileIdx' = fileIdx + 1
    /\ UNCHANGED <<pc, files, minOccurrences, allFunctions, names, unitIdx,
                   hashes, duplicates, normalized, report, arg, ret>>

\* scanDir's forEach callback on an eligible file: parseFile, then
\* extractFunctions, then allFunctions.push(...functions).
ScanFile ==
    /\ pc = "scanDir"
    /\ fileIdx <= Len(files)
    /\ Catalogue(files[fileIdx]).ext \in {".js", ".ts"}
    /\ Catalogue(files[fileIdx]).parses
    /\ allFunctions' = allFunctions
          \o extractFunctions(Catalogue(files[fileIdx]), fileIdx,
                              pathOf(fileIdx, files[fileIdx]))
    /\ fileIdx' = fileIdx + 1
    /\ UNCHANGED <<pc, files, minOccurrences, names, unitIdx, hashes,
                   duplicates, normalized, report, arg, ret>>

\* parseFile on a file the parser rejects: parse throws, nothing between
\* parseFile and the caller of scanProject catches, the call ends.
ParseThrows ==
    /\ pc = "scanDir"
    /\ fileIdx <= Len(files)
    /\ Catalogue(files[fileIdx]).ext \in {".js", ".ts"}
    /\ ~Catalogue(files[fileIdx]).parses
    /\ pc' = "threw"
    /\ ret' = "SyntaxError"
    /\ UNCHANGED <<files, minOccurrences, fileIdx, allFunctions, names,
                   unitIdx, hashes, duplicates, normalized, report, arg>>

\* scanDir(directory) returns and findDuplicateFunctions(allFunctions) starts.
ScanDirReturns ==
    /\ pc = "scanDir"
    /\ fileIdx > Len(files)
    /\ pc' = "findDuplicateFunctions"
    /\ UNCHANGED <<files, minOccurrences, fileIdx, allFunctions, names,
                   unitIdx, hashes, duplicates, normalized, report, arg, ret>>

\* Position of the entry of duplicates with key hash, 0 when there is none.
entryOf(dups, hash) ==
    IF \E j \in 1..Len(dups) : dups[j].hash = hash
    THEN CHOOSE j \in 1..Len(dups) : dups[j].hash = hash
    ELSE 0

\* recordDuplicate with a list that starts without the unit kept in hashes.
recordDuplicateDropFirst(dups, first, hash, unit) ==
    LET j == entryOf(dups, hash)
    IN  IF j = 0
        THEN Append(dups, [hash |-> hash, instances |-> <<unit>>])
        ELSE [dups EXCEPT ![j].instances = Append(@, unit)]

\* recordDuplicate with the new key put first in the enumeration order.
recordDuplicateNewFirst(dups, first, hash, unit) ==
    LET j == entryOf(dups, hash)
    IN  IF j = 0
        THEN <<[hash |-> hash, instances |-> <<first, unit>>]>> \o dups
        ELSE [dups EXCEPT ![j].instances = Append(@, unit)]

\* The branch of findDuplicateFunctions' callback on the duplicates object:
\* duplicates[hash] = duplicates[hash] || [hashes[hash]], then push.  A new
\* key goes last in the object's enumeration order.
recordDuplicate(dups, first, hash, unit) ==
    LET j == entryOf(dups, hash)
    IN  IF j = 0
        THEN Append(dups, [hash |-> hash, instances |-> <<first, unit>>])
        ELSE [dups EXCEPT ![j].instances = Append(@, unit)]

\* findDuplicateFunctions' forEach callback on a unit normalizeFunction
\* accepts.
HashUnit ==
    /\ pc = "findDuplicateFunctions"
    /\ unitIdx <= Len(allFunctions)
    /\ ~normalizeThrows(nodeOf(allFunctions[unitIdx]))
    /\ LET unit == allFunctions[unitIdx]
           n == normalizeFunction(treeOf(unit), names[unit.file], nodeOf(unit))
           hash == hashFunctionCode(n.code)
       IN  /\ names' = [names EXCEPT ![unit.file] = n.names]
           /\ normalized' = Append(normalized, [code |-> n.code, hash |-> hash])
           /\ IF hash \in DOMAIN hashes
              THEN /\ duplicates' = recordDuplicate(duplicates, hashes[hash],
                                                    hash, unit)
                   /\ hashes' = hashes
              ELSE /\ hashes' = [h \in DOMAIN hashes \cup {hash} |->
                                   IF h = hash THEN unit ELSE hashes[h]]
                   /\ duplicates' = duplicates
    /\ unitIdx' = unitIdx + 1
    /\ UNCHANGED <<pc, files, minOccurrences, fileIdx, allFunctions, report,
                   arg, ret>>

\* findDuplicateFunctions' forEach callback on a unit whose node type
\* normalizeFunction rejects: the Error leaves findDuplicateFunctions and
\* scanProject.
NormalizeThrows ==
    /\ pc = "findDuplicateFunctions"
    /\ unitIdx <= Len(allFunctions)
    /\ normalizeThrows(nodeOf(allFunctions[unitIdx]))
    /\ pc' = "threw"
    /\ ret' = "Unsupported function node type"
    /\ UNCHANGED <<files, minOccurrences, fileIdx, allFunctions, names,
                   unitIdx, hashes, duplicates, normalized, report, arg>>

\* The text generateReport appends for one key of duplicates, as a record:
\* the printed count, one location line per instance and the snippet of the
\* first instance.  hash names the key the block was printed for.
blockOf(entry) ==
    LET firstInstance == entry.instances[1]
    IN  [hash |-> entry.hash,
         count |-> Len(entry.instances),
         locations |-> [k \in 1..Len(entry.instances) |->
                          [filePath |-> entry.instances[k].filePath,
                           startLine |-> nodeOf(entry.instances[k]).loc.start.line,
                           endLine |-> nodeOf(entry.instances[k]).loc.end.line]],
         code |-> extractFunctionCode(treeOf(firstInstance).content,
                                      nodeOf(firstInstance).loc)]

\* The for-in loop of generateReport with > in place of >=.
RECURSIVE reportOfStrict(_, _)
reportOfStrict(dups, minOcc) ==
    IF dups = <<>> THEN <<>>
    ELSE (IF Len(Head(dups).instances) > minOcc
          THEN <<blockOf(Head(dups))>> ELSE <<>>)
         \o reportOfStrict(Tail(dups), minOcc)

\* The for-in loop of generateReport over duplicates.
RECURSIVE reportOf(_, _)
reportOf(dups, minOcc) ==
    IF dups = <<>> THEN <<>>
    ELSE (IF Len(Head(dups).instances) >= minOcc
          THEN <<blockOf(Head(dups))>> ELSE <<>>)
         \o reportOf(Tail(dups), minOcc)

\* findDuplicateFunctions returns; generateReport(duplicates, outputFilePath,
\* minOccurrences) builds the report and writes it.
GenerateReport ==
    /\ pc = "findDuplicateFunctions"
    /\ unitIdx > Len(allFunctions)
    /\ report' = reportOf(duplicates, minOccurrences)
    /\ pc' = "done"
    /\ UNCHANGED <<files, minOccurrences, fileIdx, allFunctions, names,
                   unitIdx, hashes, duplicates, normalized, arg, ret>>

Next ==
    \/ SkipEntry
    \/ ScanFile
    \/ ParseThrows
    \/ ScanDirReturns
    \/ HashUnit
    \/ NormalizeThrows
    \/ GenerateReport

Spec == Init /\ [][Next]_vars

-----------------------------------------------------------------------------
(* normalizeFunction and hashFunctionCode on one unit *)

NamePool == {"a", "b", "identifier_0"}

\* The bijective renamings of the identifier names.
Renamings ==
    {rho \in [NamePool -> NamePool] : \A x, y \in NamePool : rho[x] = rho[y] => x = y}

Trees == {"flat", "inner"}

\* The unit described by a: function node 1 of the tree with the given
\* type, with or without id, async or not.
unitOf(a) ==
    [Catalogue(a.tree).funcs[1] EXCEPT !.type = a.type,
                                       !.id = IF a.named THEN 1 ELSE 0,
                                       !.async = a.async]

\* hashFunctionCode(normalizeFunction(node)) on a tree just parsed.
hashOf(tree, nm, node) ==
    hashFunctionCode(normalizeFunction(Catalogue(tree), nm, node).code)

InitCanon ==
    /\ \E tree \in Trees :
          arg \in [tree : {tree},
                   names : [1..Len(Catalogue(tree).names0) -> NamePool],
                   type : {"FunctionDeclaration", "FunctionExpression",
                           "ArrowFunctionExpression"},
                   named : BOOLEAN,
                   async : BOOLEAN,
                   rho : Renamings]
    /\ arg.type = "FunctionDeclaration" => arg.named
    /\ arg.type = "ArrowFunctionExpression" => ~arg.named
    /\ pc = "canonicalize"
    /\ ret = "none"
    /\ files = <<>>
    /\ minOccurrences = 2
    /\ fileIdx = 1
    /\ allFunctions = <<>>
    /\ names = <<>>
    /\ unitIdx = 1
    /\ hashes = NoObject
    /\ duplicates = <<>>
    /\ normalized = <<>>
    /\ report = "none"

\* Hash the unit, the unit with every Identifier renamed by rho, and the
\* declaration, named expression and anonymous expression with the unit's
\* parameters and body.
Canonicalize ==
    /\ pc = "canonicalize"
    /\ LET node == unitOf(arg)
           renamedNames == [n \in DOMAIN arg.names |-> arg.rho[arg.names[n]]]
       IN  ret' = [original |-> hashOf(arg.tree, arg.names, node),
                   renamed |-> hashOf(arg.tree, renamedNames, node),
                   declaration |->
                       hashOf(arg.tree, arg.names,
                              [node EXCEPT !.type = "FunctionDeclaration", !.id = 1]),
                   namedExpression |->
                       hashOf(arg.tree, arg.names,
                              [node EXCEPT !.type = "FunctionExpression", !.id = 1]),
                   anonymousExpression |->
                       hashOf(arg.tree, arg.names,
                              [node EXCEPT !.type = "FunctionExpression", !.id = 0])]
    /\ pc' = "hashed"
    /\ UNCHANGED <<files, minOccurrences, fileIdx, allFunctions, names,
                   unitIdx, hashes, duplicates, normalized, report, arg>>

NextCanon == Canonicalize

SpecCanon == InitCanon /\ [][NextCanon]_vars

-----------------------------------------------------------------------------
(* extractFunctionCode on one file and span *)

Texts == {"const x = add(1,2);",
          "let f = function (a) {\n  return a;\n};\nf(1);",
          "a\n\nbc\nd"}

\* The spans of a text: startLine <= endLine, and startColumn <= endColumn
\* when they are equal; every column lies within its line.
Spans(content) ==
    LET lines == split(content)
    IN  {loc \in [start : [line : 1..Len(lines), column : 0..Len(content)],
                  end : [line : 1..Len(lines), column : 0..Len(content)]] :
            /\ loc.start.line <= loc.end.line
            /\ loc.end.line - loc.start.line < MaxSpanLines
            /\ loc.start.column <= Len(lines[loc.start.line])
            /\ loc.end.column <= Len(lines[loc.end.line])
            /\ loc.start.line = loc.end.line => loc.start.column <= loc.end.column}

InitExtract ==
    /\ \E content \in Texts : \E loc \in Spans(content) :
          arg = [content |-> content, loc |-> loc]
    /\ pc = "extract"
    /\ ret = "none"
    /\ files = <<>>
    /\ minOccurrences = 2
    /\ fileIdx = 1
    /\ allFunctions = <<>>
    /\ names = <<>>
    /\ unitIdx = 1
    /\ hashes = NoObject
    /\ duplicates = <<>>
    /\ normalized = <<>>
    /\ report = "none"

Extract ==
    /\ pc = "extract"
    /\ ret' = extractFunctionCode(arg.content, arg.loc)
    /\ pc' = "extracted"
    /\ UNCHANGED <<files, minOccurrences, fileIdx, allFunctions, names,
                   unitIdx, hashes, duplicates, normalized, report, arg>>

NextExtract == Extract

SpecExtract == InitExtract /\ [][NextExtract]_vars

-----------------------------------------------------------------------------
(* Properties *)

\* The positions in the scan sequence of the units hashed so far whose hash
\* is h, and the units at those positions in scan order.
positionsOf(h) == {k \in 1..Len(normalized) : normalized[k].hash = h}
countOf(h) == Cardinality(positionsOf(h))
nthPositionOf(h, j) ==
    CHOOSE k \in positionsOf(h) :
        Cardinality({m \in positionsOf(h) : m < k}) = j - 1
unitsWithHash(h) == [j \in 1..countOf(h) |-> allFunctions[nthPositionOf(h, j)]]

\* C1: renaming invariance.  For every unit normalizeFunction accepts and
\* every bijective renaming of its identifier names, the hash of the
\* canonical form of the renamed unit equals that of the original unit.
C1_RenamingInvariance ==
    pc = "hashed" => ret.renamed = ret.original

\* A hashed unit with two different names in which the renaming changes
\* every Identifier.
C1_Witness ==
    /\ pc = "hashed"
    /\ \A n \in DOMAIN arg.names : arg.rho[arg.names[n]] # arg.names[n]
    /\ arg.names[2] # arg.names[3]

\* C2: single-line span extraction.  For a span with startLine = endLine the
\* result is exactly the characters of that line at the 0-indexed columns
\* startColumn .. endColumn - 1.
C2_SingleLineSpan ==
    (pc = "extracted" /\ arg.loc.start.line = arg.loc.end.line) =>
        ret = SubSeq(split(arg.content)[arg.loc.start.line],
                     arg.loc.start.column + 1, arg.loc.end.column)

\* Offset in the text of a position: the lengths of the lines before it and
\* their newlines, plus the column.
RECURSIVE offsetOfLine(_, _)
offsetOfLine(lines, l) ==
    IF l = 1 THEN 0 ELSE offsetOfLine(lines, l - 1) + Len(lines[l - 1]) + 1

offsetOf(content, pos) == offsetOfLine(split(content), pos.line) + pos.column

\* C3: multi-line span extraction.  For a span with startLine < endLine the
\* result is the text of the file from the start position up to, and
\* excluding, the end position, for every startColumn.
C3_MultiLineSpan ==
    (pc = "extracted" /\ arg.loc.start.line < arg.loc.end.line) =>
        ret = SubSeq(arg.content, offsetOf(arg.content, arg.loc.start) + 1,
                     offsetOf(arg.content, arg.loc.end))

\* C4: cluster threshold.  Once the report is written it has a block for a
\* hash exactly when at least minOccurrences units of the scan sequence have
\* that hash, one block at most per hash, and the count printed in a block
\* is the number of units with its hash.
C4_ClusterThreshold ==
    pc = "done" =>
        /\ \A k \in 1..Len(normalized) :
              (\E b \in 1..Len(report) : report[b].hash = normalized[k].hash)
              <=> countOf(normalized[k].hash) >= minOccurrences
        /\ \A b \in 1..Len(report) : report[b].count = countOf(report[b].hash)
        /\ \A b, c \in 1..Len(report) : report[b].hash = report[c].hash => b = c

\* Three units with one hash reported as one cluster of size 3 at
\* minOccurrences = 3.
C4_Witness ==
    /\ pc = "done"
    /\ minOccurrences = 3
    /\ Len(report) = 1
    /\ report[1].count = 3

\* C5 as stated: the blocks of the report are in the order in which their
\* hashes were first observed in the scan sequence.
C5_FirstObservedOrder ==
    pc = "done" =>
        \A b, c \in 1..Len(report) :
            b < c => nthPositionOf(report[b].hash, 1) < nthPositionOf(report[c].hash, 1)

\* C5 amended: the blocks of the report are in the order in which their
\* hashes were observed for the second time, that is in the order in which
\* they first became duplicated.
C5_FirstDuplicatedOrder ==
    pc = "done" =>
        \A b, c \in 1..Len(report) :
            b < c => nthPositionOf(report[b].hash, 2) < nthPositionOf(report[c].hash, 2)

\* A report of two blocks whose hashes became duplicated in the opposite
\* order of their first observation.
C5_Witness ==
    /\ pc = "done"
    /\ Len(report) = 2
    /\ nthPositionOf(report[2].hash, 1) < nthPositionOf(report[1].hash, 1)

\* The eligible files of the listing whose parse was attempted and failed.
failedFiles ==
    {i \in 1..Len(files) :
        /\ Catalogue(files[i]).ext \in {".js", ".ts"}
        /\ ~Catalogue(files[i]).parses
        /\ (i < fileIdx \/ (i = fileIdx /\ pc = "threw"))}

\* C6: malformed file isolation.  When parsing an eligible file has failed,
\* the file contributes no units, the scan goes on (the call has not ended
\* with the error) and the report it ends with is written.
C6_MalformedFileIsolation ==
    failedFiles # {} =>
        /\ pc \in {"scanDir", "findDuplicateFunctions", "done"}
        /\ \A k \in 1..Len(allFunctions) : allFunctions[k].file \notin failedFiles
        /\ pc = "done" => report # "none"

\* The units reached by findDuplicateFunctions whose node type
\* normalizeFunction does not recognize.
unsupportedUnits ==
    {k \in 1..Len(allFunctions) :
        /\ normalizeThrows(nodeOf(allFunctions[k]))
        /\ pc \in {"findDuplicateFunctions", "threw", "done"}
        /\ k <= unitIdx
        /\ (k = unitIdx => pc = "threw")}

\* C7: an unsupported unit shape is not fatal.  When findDuplicateFunctions
\* has met a unit normalizeFunction does not recognize, that unit is left
\* out of every cluster, the call has not ended with the error and the report
\* it ends with is written.
C7_UnsupportedUnitNotFatal ==
    unsupportedUnits # {} =>
        /\ pc \in {"findDuplicateFunctions", "done"}
        /\ \A j \in 1..Len(duplicates) : \A m \in 1..Len(duplicates[j].instances) :
              ~normalizeThrows(nodeOf(duplicates[j].instances[m]))
        /\ pc = "done" => report # "none"

\* C8: named/anonymous equivalence.  The function declaration, the named
\* function expression and the anonymous function expression with the same
\* parameters and body have the same hash.
C8_NamedAnonymousEquivalence ==
    pc = "hashed" =>
        /\ ret.declaration = ret.anonymousExpression
        /\ ret.namedExpression = ret.anonymousExpression

\* C9: batch independence.  The canonical form computed for a unit during
\* findDuplicateFunctions is the one normalizeFunction computes for that
\* unit on the tree as parsed, whatever was canonicalized before it.
C9_BatchIndependence ==
    \A k \in 1..Len(normalized) :
        normalized[k].code =
            normalizeFunction(treeOf(allFunctions[k]),
                              treeOf(allFunctions[k]).names0,
                              nodeOf(allFunctions[k])).code

\* Two nested functions canonicalized after their enclosing functions
\* renamed their Identifier nodes (one of them with a name that has the form
\* of a label), and a unit canonicalized twice.
C9_Witness ==
    /\ \E k \in 2..Len(normalized) :
          /\ files[allFunctions[k].file] = "nested.ts"
          /\ allFunctions[k].node = 4
          /\ allFunctions[k - 1].file = allFunctions[k].file
          /\ allFunctions[k - 1].node = 3
          /\ names[allFunctions[k].file] # treeOf(allFunctions[k]).names0
    /\ \E k \in 2..Len(normalized) : allFunctions[k] = allFunctions[k - 1]

\* C10: within-cluster order and completeness.  The member list of every
\* cluster is the sequence of the units hashed so far that have its hash, each
\* once and in scan order, and a block of the report lists those members in
\* that order, the first unit discovered with the hash first.
C10_ClusterMembers ==
    /\ \A j \in 1..Len(duplicates) :
          duplicates[j].instances = unitsWithHash(duplicates[j].hash)
    /\ pc = "done" =>
          \A b \in 1..Len(report) :
              /\ Len(report[b].locations) = countOf(report[b].hash)
              /\ \A m \in 1..Len(report[b].locations) :
                    LET unit == unitsWithHash(report[b].hash)[m]
                    IN  /\ report[b].locations[m].filePath = unit.filePath
                        /\ report[b].locations[m].startLine = nodeOf(unit).loc.start.line
                        /\ report[b].locations[m].endLine = nodeOf(unit).loc.end.line

\* A reported cluster of three members from three files.
C10_Witness ==
    /\ pc = "done"
    /\ \E b \in 1..Len(report) :
          /\ report[b].count = 3
          /\ report[b].locations[1].filePath # report[b].locations[2].filePath
          /\ report[b].locations[2].filePath # report[b].locations[3].filePath

\* The Identifier nodes of a unit's syntax node: its id, parameters and body.
identifiersOfUnit(unit) == identifiersOf(treeOf(unit), nodeOf(unit))

\* C11: FunctionUnit immutability.  After findDuplicateFunctions has
\* returned, every collected unit is as extractFunctions created it: its file
\* path is the path of the file it was collected from and every Identifier
\* node of its syntax node has the name the parser gave it.
C11_UnitImmutability ==
    pc = "done" =>
        \A k \in 1..Len(allFunctions) :
            LET unit == allFunctions[k]
                order == identifiersOfUnit(unit)
            IN  /\ unit.filePath = pathOf(unit.file, files[unit.file])
                /\ \A i \in 1..Len(order) :
                      names[unit.file][order[i]] = treeOf(unit).names0[order[i]]

====
